---- MODULE Spec2Model ----
(***************************************************************************)
(* A model of collect_metadata.py: the directory scanner that dispatches   *)
(* every directory entry by its name suffix to a vector or a raster        *)
(* reader, merges the reader's answer with the entry's stat result and     *)
(* writes the collected records to metadata.csv.                           *)
(*                                                                         *)
(* Conventions.                                                            *)
(*  - A file name is the sequence of its characters, so that               *)
(*    str.endswith is computed on the characters.                          *)
(*  - A file is the pair <<directory, name>>.  A file name handed to a     *)
(*    library is a record [dir, name]; dir = Relative means the name is    *)
(*    resolved against the process's current working directory.           *)
(*  - A float that is an integer divided by powers of two is the exact     *)
(*    fraction [num, den]; volume_in_MB, a float with 2 decimals, is the   *)
(*    integer number of hundredths.                                        *)
(*  - A timestamp is an integer number of clock ticks; the text that       *)
(*    datetime.ctime() prints has a resolution of one second.              *)
(***************************************************************************)
EXTENDS Integers, Sequences, FiniteSets, TLC

VARIABLES
    path,            \* the directory given to scan_directory
    cwd,             \* the process's current working directory
    listing,         \* listing[d]: the names in directory d, in enumeration order
    atime,           \* atime[d][n]: the access time of file <<d, n>>
    now,             \* the clock
    run,             \* how many times scan_directory was called
    pc,              \* where scan_directory is: idle, scanning, writing, returned, raised
    scanner,         \* the entries os.scandir has not yielded yet
    metadata_store,  \* the list scan_directory collects
    csv,             \* the file metadata.csv of cwd: [exists, rows]
    open_handles,    \* the handles that are open
    exc,             \* the exception that left scan_directory, or NoExc
    log,             \* what happened to each entry of this run, in order
    csv_at_start,    \* metadata.csv as it was when this run began
    prev_csv,        \* metadata.csv as the previous run left it, when that run returned
    call             \* the last call of a function on its own: [op, in, out]

vars == <<path, cwd, listing, atime, now, run, pc, scanner, metadata_store, csv,
          open_handles, exc, log, csv_at_start, prev_csv, call>>

scan_vars == <<path, cwd, listing, atime, now, run, pc, scanner, metadata_store, csv,
               open_handles, exc, log, csv_at_start, prev_csv>>

-----------------------------------------------------------------------------
(* Bounds *)

MaxEntries == 3      \* the longest initial directory listing
MaxRuns == 1         \* scan_directory is called at most this often
Twice == 2           \* ... and this often where two runs are compared
MaxTime == 3         \* the latest timestamp of a stat result
TicksPerSecond == 2  \* clock ticks in one second
MaxPixels == 2       \* raster sizes range over 1..MaxPixels and 50
MaxBytes == 3        \* file sizes range over 0..MaxBytes and the sizes of TieSizes

KiB == 1024

-----------------------------------------------------------------------------
(* Names *)

N_geojson == <<"a", ".", "g", "e", "o", "j", "s", "o", "n">>
N_tif     == <<"b", ".", "t", "i", "f">>
N_txt     == <<"c", ".", "t", "x", "t">>
N_shp     == <<"d", ".", "s", "h", "p">>
N_gpkg    == <<"e", ".", "g", "p", "k", "g">>
N_img     == <<"f", ".", "i", "m", "g">>
N_tiff    == <<"g", ".", "t", "i", "f", "f">>
N_TIF     == <<"h", ".", "T", "I", "F">>
N_bak     == <<"i", ".", "t", "i", "f", ".", "b", "a", "k">>
N_xml     == <<"j", ".", "s", "h", "p", ".", "x", "m", "l">>
N_bare    == <<"t", "i", "f">>
N_dot     == <<".", "i", "m", "g">>
N_csv     == <<"m", "e", "t", "a", "d", "a", "t", "a", ".", "c", "s", "v">>

\* the names a scanned directory starts with
Names == {N_geojson, N_tif, N_txt}

\* the names parse_metadata is called with on its own
AllNames == {N_geojson, N_tif, N_txt, N_shp, N_gpkg, N_img, N_tiff, N_TIF,
             N_bak, N_xml, N_bare, N_dot, N_csv}

Dirs == {"/data", "/work"}

\* the directories scan_directory is given
ScanDirs == {"/data"}

Relative == "."

None == [none |-> TRUE]
NoExc == "none"
NoFile == <<>>

Range(s) == {s[i] : i \in DOMAIN s}

\* the sequences without repetition over S of length at most n
RECURSIVE Listings(_, _)
Listings(S, n) ==
    IF n = 0 THEN {<<>>}
    ELSE LET shorter == Listings(S, n - 1)
         IN  shorter \cup {t \in {Append(s, x) : s \in shorter, x \in S} :
                              \A i, j \in DOMAIN t : t[i] = t[j] => i = j}

-----------------------------------------------------------------------------
(* The filesystem and the geospatial libraries *)

\* a slip in place of str.endswith: the suffix is looked for anywhere in the name
endswith_anywhere(s, suffix) ==
    \E k \in 1..Len(s) :
        /\ k + Len(suffix) - 1 <= Len(s)
        /\ SubSeq(s, k, k + Len(suffix) - 1) = suffix

\* str.endswith
endswith(s, suffix) ==
    /\ Len(s) >= Len(suffix)
    /\ SubSeq(s, Len(s) - Len(suffix) + 1, Len(s)) = suffix

S_gpkg    == <<".", "g", "p", "k", "g">>
S_shp     == <<".", "s", "h", "p">>
S_geojson == <<".", "g", "e", "o", "j", "s", "o", "n">>
S_tif     == <<".", "t", "i", "f">>
S_img     == <<".", "i", "m", "g">>

\* an entry os.scandir(d) yields: DirEntry.name is the bare name, DirEntry.path
\* is the name joined to the scanned directory
DirEntry(d, n) == [name |-> n, path |-> [dir |-> d, name |-> n]]

Files == Dirs \X AllNames

\* what the files hold; the files of the two directories differ in everything
\* but their names
Content ==
    [f \in Files |->
        IF endswith(f[2], S_tif) \/ endswith(f[2], S_img)
        THEN IF f[1] = "/data"
             THEN [geotransform |-> <<100, 10, 0, 500, 0, -10>>, xsize |-> 50,
                   ysize |-> 50, projection |-> "WGS 84", driver |-> "GeoTIFF"]
             ELSE [geotransform |-> <<0, 1, 0, 10, 0, -1>>, xsize |-> 10,
                   ysize |-> 10, projection |-> "WGS 84 / Pseudo-Mercator",
                   driver |-> "GeoTIFF"]
        ELSE IF f[1] = "/data"
             THEN [bounds |-> <<0, 0, 1, 1>>, driver |-> "GeoJSON", crs |-> "epsg:4326"]
             ELSE [bounds |-> <<0, 0, 2, 2>>, driver |-> "GeoJSON", crs |-> "epsg:3857"]]

FileSize == [f \in Files |-> IF f[1] = "/data" THEN 131072 ELSE 5243]

FileCtime == [f \in Files |-> IF f[1] = "/data" THEN 0 ELSE 1]

\* the file a library opens for a file name: a relative name is looked up in
\* the current working directory
resolve(os, filename) ==
    IF filename.dir = Relative THEN <<os.cwd, filename.name>>
    ELSE <<filename.dir, filename.name>>

exists(os, file) == file[2] \in Range(os.listing[file[1]])

\* DirEntry.stat(): the stat of the entry in the scanned directory
stat(os, sourcefile) ==
    LET file == resolve(os, sourcefile.path)
    IN  [st_size |-> os.size[file], st_ctime |-> os.ctime[file],
         st_atime |-> os.atime[file[1]][file[2]]]

\* fiona.crs.to_string: the PROJ text of a CRS
to_string(crs) == <<"+init=", crs>>

\* datetime.fromtimestamp(t).ctime(): text with a resolution of one second
ctime(t) == <<"ctime", t \div TicksPerSecond>>

\* int / int, and float / int where the divisor is a power of two: exact
float(i) == [num |-> i, den |-> 1]
truediv(x, k) == [num |-> x.num, den |-> x.den * k]

\* a slip in place of round(x, 2): the digits after the second are cut off
round2_cut(x) == (x.num * 100) \div x.den

\* round(x, 2): the nearest multiple of 0.01, a tie going to the even one;
\* the result is the number of hundredths
round2(x) ==
    LET scaled == x.num * 100
        q == scaled \div x.den
        r == scaled % x.den
    IN  IF 2 * r < x.den THEN q
        ELSE IF 2 * r > x.den THEN q + 1
        ELSE IF q % 2 = 0 THEN q ELSE q + 1

-----------------------------------------------------------------------------
(* The functions of collect_metadata.py.                                    *)
(*                                                                          *)
(* os is what the function finds outside itself: the current working       *)
(* directory, the directory listings, the files' sizes, times and          *)
(* contents, whether the stat succeeds (stat_ok), whether the library can  *)
(* open the file (open_ok) and read what it opened (read_ok), and whether  *)
(* the runtime finalizes an object as soon as nothing refers to it         *)
(* (finalized).                                                            *)
(*                                                                          *)
(* A reader answers [raised, value, opened, held]: the exception it raised  *)
(* or NoExc, the value it returned, the file the library opened or NoFile,  *)
(* and the handles that are still open when it is left.                    *)

\* the file name the readers give the library: sourcefile.name
reader_filename(sourcefile) == [dir |-> Relative, name |-> sourcefile.name]

vector_data_reader(sourcefile, os) ==
    LET file == resolve(os, reader_filename(sourcefile))
        handle == <<"fiona", file[1], file[2]>>
        \* the with statement: whatever was acquired is released on the way out
        with_exit(held) == held \ {handle}
    IN  IF ~(exists(os, file) /\ os.open_ok)
        THEN [raised |-> "DriverError", value |-> None, opened |-> NoFile,
              held |-> {}]
        ELSE IF ~os.read_ok
        THEN [raised |-> "ReadError", value |-> None, opened |-> file,
              held |-> with_exit({handle})]
        ELSE [raised |-> NoExc,
              value |-> [extent |-> os.dataset[file].bounds,
                         format |-> os.dataset[file].driver,
                         spatial_reference |-> to_string(os.dataset[file].crs),
                         data_type |-> "vector"],
              opened |-> file,
              held |-> with_exit({handle})]

raster_data_reader(sourcefile, os) ==
    LET file == resolve(os, reader_filename(sourcefile))
        handle == <<"gdal", file[1], file[2]>>
        gt == os.dataset[file].geotransform
        \* xmin, xres, _, ymax, yres, _ = file.GetGeoTransform()
        xmin == gt[1]
        xres == gt[2]
        ymax == gt[4]
        yres == gt[5]
        xmax == xmin + os.dataset[file].xsize * xres
        ymin == ymax + os.dataset[file].ysize * yres
    IN  IF ~(exists(os, file) /\ os.open_ok)
        \* gdal.Open answered None: file.GetProjection() raises
        THEN [raised |-> "AttributeError", value |-> None, opened |-> NoFile,
              held |-> {}]
        ELSE IF ~os.read_ok
        \* no close on the way out: the traceback keeps the frame and its dataset
        THEN [raised |-> "RuntimeError", value |-> None, opened |-> file,
              held |-> {handle}]
        \* no close on the way out: the dataset is closed when the runtime
        \* finalizes it
        ELSE [raised |-> NoExc,
              value |-> [extent |-> <<xmin, ymin, xmax, ymax>>,
                         format |-> os.dataset[file].driver,
                         spatial_reference |-> os.dataset[file].projection,
                         data_type |-> "raster"],
              opened |-> file,
              held |-> IF os.finalized THEN {} ELSE {handle}]

metadata_creator(name, non_spatial_information, spatial_information) ==
    [name |-> name,
     data_type |-> spatial_information.data_type,
     format |-> spatial_information.format,
     volume_in_MB |->
         round2(truediv(truediv(float(non_spatial_information.st_size), KiB), KiB)),
     spatial_reference |-> spatial_information.spatial_reference,
     extent |-> spatial_information.extent,
     creation_date |-> ctime(non_spatial_information.st_ctime),
     update_date |-> ctime(non_spatial_information.st_atime)]

is_vector_name(name) ==
    endswith(name, S_gpkg) \/ endswith(name, S_shp) \/ endswith(name, S_geojson)

is_raster_name(name) ==
    endswith(name, S_tif) \/ endswith(name, S_img)

\* a slip in place of parse_metadata: a reader's exception is caught and the
\* entry passed over
parse_metadata_catch(sourcefile, os) ==
    LET r == IF is_vector_name(sourcefile.name) THEN vector_data_reader(sourcefile, os)
             ELSE raster_data_reader(sourcefile, os)
    IN  IF ~os.stat_ok
        THEN [raised |-> "OSError", value |-> None, opened |-> NoFile, held |-> {}]
        ELSE IF ~(is_vector_name(sourcefile.name) \/ is_raster_name(sourcefile.name))
        THEN [raised |-> NoExc, value |-> None, opened |-> NoFile, held |-> {}]
        ELSE IF r.raised # NoExc
        THEN [raised |-> NoExc, value |-> None, opened |-> r.opened, held |-> r.held]
        ELSE [r EXCEPT !.value = metadata_creator(sourcefile.name, stat(os, sourcefile),
                                                  r.value)]

parse_metadata(sourcefile, os) ==
    LET non_spatial_information == stat(os, sourcefile)
        name == sourcefile.name
        create(r) ==
            IF r.raised # NoExc THEN r
            ELSE [r EXCEPT !.value =
                      metadata_creator(name, non_spatial_information, r.value)]
    IN  IF ~os.stat_ok
        THEN [raised |-> "OSError", value |-> None, opened |-> NoFile, held |-> {}]
        ELSE IF is_vector_name(sourcefile.name)
        THEN create(vector_data_reader(sourcefile, os))
        ELSE IF is_raster_name(sourcefile.name)
        THEN create(raster_data_reader(sourcefile, os))
        ELSE [raised |-> NoExc, value |-> None, opened |-> NoFile, held |-> {}]

-----------------------------------------------------------------------------
(* scan_directory *)

fields_names == <<"name", "data_type", "format", "volume_in_MB",
                  "spatial_reference", "extent", "creation_date", "update_date">>

\* csv.DictWriter: the values of a dict in the order of the field names
row(d) == [i \in DOMAIN fields_names |-> d[fields_names[i]]]

NoCsv == [exists |-> FALSE, rows |-> <<>>]

NoCall == [op |-> "none"]

scandir_handle == <<"scandir", path, <<>>>>

csv_handle == <<"csv", cwd, N_csv>>

\* what the scan finds outside itself, given the answers of this step
os_of(stat_ok, open_ok, read_ok, finalized) ==
    [cwd |-> cwd, listing |-> listing, atime |-> atime, size |-> FileSize,
     ctime |-> FileCtime, dataset |-> Content, stat_ok |-> stat_ok,
     open_ok |-> open_ok, read_ok |-> read_ok, finalized |-> finalized]

\* a slip in place of loop_body: the loop goes on after an exception
loop_body_swallow(store, r) ==
    IF r.raised = NoExc /\ r.value # None
    THEN [pc |-> "scanning", store |-> Append(store, r.value), exc |-> NoExc]
    ELSE [pc |-> "scanning", store |-> store, exc |-> NoExc]

\* a slip in place of loop_body: a record is put in front of the list
loop_body_prepend(store, r) ==
    IF r.raised # NoExc
    THEN [pc |-> "raised", store |-> store, exc |-> r.raised]
    ELSE IF r.value # None
    THEN [pc |-> "scanning", store |-> <<r.value>> \o store, exc |-> NoExc]
    ELSE [pc |-> "scanning", store |-> store, exc |-> NoExc]

\* the body of the for loop, given what parse_metadata did: an exception leaves
\* the loop, a record is appended, None is passed over
loop_body(store, r) ==
    IF r.raised # NoExc
    THEN [pc |-> "raised", store |-> store, exc |-> r.raised]
    ELSE IF r.value # None
    THEN [pc |-> "scanning", store |-> Append(store, r.value), exc |-> NoExc]
    ELSE [pc |-> "scanning", store |-> store, exc |-> NoExc]

\* the handles open after an entry: what the reader left open, and the
\* directory iterator unless an exception left its with statement
handles_after_entry(handles, r) ==
    IF r.raised # NoExc THEN (handles \cup r.held) \ {scandir_handle}
    ELSE handles \cup r.held

\* metadata.csv once open(..., "w") succeeded: it exists and is empty
truncated == [exists |-> TRUE, rows |-> <<>>]

\* a metadata.csv that an earlier run over an empty directory wrote
OldCsv == [exists |-> TRUE, rows |-> <<fields_names>>]

InitScan(p, c, entries, twin, old) ==
    /\ path = p
    /\ cwd = c
    /\ listing = [d \in Dirs |->
                     (IF d = p \/ twin THEN entries ELSE <<>>)
                     \o (IF d = c /\ old THEN <<N_csv>> ELSE <<>>)]
    /\ atime = [d \in Dirs |-> [n \in AllNames |-> 0]]
    /\ now = 1
    /\ run = 0
    /\ pc = "idle"
    /\ scanner = <<>>
    /\ metadata_store = <<>>
    /\ csv = IF old THEN OldCsv ELSE NoCsv
    /\ open_handles = {}
    /\ exc = NoExc
    /\ log = <<>>
    /\ csv_at_start = csv
    /\ prev_csv = [valid |-> FALSE, file |-> NoCsv]

\* a directory to scan, a working directory, and the files of the scanned
\* directory; the other directory is empty or holds files of the same names;
\* the working directory may hold a metadata.csv already
Init ==
    /\ \E p \in ScanDirs, c \in Dirs, entries \in Listings(Names, MaxEntries),
          twin \in BOOLEAN, old \in BOOLEAN :
            /\ twin => c # p
            /\ InitScan(p, c, entries, twin, old)
    /\ call = NoCall

\* scan_directory(path) is called: lines 84-85
StartScan(runs) ==
    /\ pc \in {"idle", "returned", "raised"}
    /\ run < runs
    /\ now' = now + 1
    /\ run' = run + 1
    /\ pc' = "scanning"
    /\ scanner' = listing[path]
    /\ metadata_store' = <<>>
    /\ open_handles' = open_handles \cup {scandir_handle}
    /\ exc' = NoExc
    /\ log' = <<>>
    /\ csv_at_start' = csv
    /\ prev_csv' = IF pc = "returned" THEN [valid |-> TRUE, file |-> csv]
                   ELSE [valid |-> FALSE, file |-> NoCsv]
    /\ UNCHANGED <<path, cwd, listing, atime, csv, call>>

\* one pass of the for loop: lines 86-90
ScanEntry ==
    /\ pc = "scanning"
    /\ scanner # <<>>
    /\ \E stat_ok, open_ok, read_ok, finalized, touch \in BOOLEAN :
        LET sourcefile == DirEntry(path, Head(scanner))
            r == parse_metadata(sourcefile, os_of(stat_ok, open_ok, read_ok, finalized))
            next == loop_body(metadata_store, r)
        IN  /\ scanner' = Tail(scanner)
            /\ metadata_store' = next.store
            /\ pc' = next.pc
            /\ exc' = next.exc
            /\ open_handles' = handles_after_entry(open_handles, r)
            \* reading a file sets its access time, where the filesystem keeps it
            /\ atime' = IF r.opened # NoFile /\ touch
                         THEN [atime EXCEPT ![r.opened[1]][r.opened[2]] = now]
                         ELSE atime
            /\ log' = Append(log, [name |-> sourcefile.name,
                                   entry |-> <<path, sourcefile.name>>,
                                   opened |-> r.opened,
                                   raised |-> r.raised,
                                   value |-> r.value])
    /\ UNCHANGED <<path, cwd, listing, now, run, csv, csv_at_start, prev_csv, call>>

\* the directory is exhausted: the scanner is closed and metadata.csv is
\* opened for writing, lines 85 and 92
OpenCsv ==
    /\ pc = "scanning"
    /\ scanner = <<>>
    /\ \E ok \in BOOLEAN :
        IF ok
        THEN /\ csv' = truncated
             /\ listing' = IF N_csv \in Range(listing[cwd]) THEN listing
                           ELSE [listing EXCEPT ![cwd] = Append(@, N_csv)]
             /\ open_handles' = (open_handles \ {scandir_handle}) \cup {csv_handle}
             /\ pc' = "writing"
             /\ exc' = NoExc
        ELSE /\ open_handles' = open_handles \ {scandir_handle}
             /\ pc' = "raised"
             /\ exc' = "OSError: open"
             /\ UNCHANGED <<csv, listing>>
    /\ UNCHANGED <<path, cwd, atime, now, run, scanner, metadata_store, log,
                   csv_at_start, prev_csv, call>>

\* a write to metadata.csv fails: the with statement closes the file, line 92,
\* and the file keeps what was written before (a flush that fails in the
\* close leaves no more than that)
WriteFails ==
    /\ open_handles' = open_handles \ {csv_handle}
    /\ pc' = "raised"
    /\ exc' = "OSError: write"
    /\ UNCHANGED csv

\* writer.writeheader(): line 96
WriteHeader ==
    /\ pc = "writing"
    /\ csv.rows = <<>>
    /\ \/ /\ csv' = [csv EXCEPT !.rows = <<fields_names>>]
          /\ UNCHANGED <<open_handles, pc, exc>>
       \/ WriteFails
    /\ UNCHANGED <<path, cwd, listing, atime, now, run, scanner, metadata_store, log,
                   csv_at_start, prev_csv, call>>

\* writer.writerows(metadata_store) writes the next row: line 97
WriteRow ==
    /\ pc = "writing"
    /\ Len(csv.rows) \in 1..Len(metadata_store)
    /\ \/ /\ csv' = [csv EXCEPT !.rows = Append(@, row(metadata_store[Len(csv.rows)]))]
          /\ UNCHANGED <<open_handles, pc, exc>>
       \/ WriteFails
    /\ UNCHANGED <<path, cwd, listing, atime, now, run, scanner, metadata_store, log,
                   csv_at_start, prev_csv, call>>

\* every row is written: the with statement closes the file and
\* scan_directory returns, line 97
CloseCsv ==
    /\ pc = "writing"
    /\ Len(csv.rows) = Len(metadata_store) + 1
    /\ open_handles' = open_handles \ {csv_handle}
    /\ pc' = "returned"
    /\ UNCHANGED <<path, cwd, listing, atime, now, run, scanner, metadata_store, csv,
                   exc, log, csv_at_start, prev_csv, call>>

Step == ScanEntry \/ OpenCsv \/ WriteHeader \/ WriteRow \/ CloseCsv

Next == StartScan(MaxRuns) \/ Step

Spec == Init /\ [][Next]_vars

\* two calls of scan_directory in succession
NextTwice == StartScan(Twice) \/ Step

SpecTwice == Init /\ [][NextTwice]_vars

-----------------------------------------------------------------------------
(* The functions called on their own *)

GeoTransforms ==
    {<<x0, xr, r1, y0, r2, yr>> :
        x0 \in {0, 100}, xr \in {1, 10}, r1 \in {0, 1},
        y0 \in {0, 500}, r2 \in {0, 2}, yr \in {-10, -1}}

PixelCounts == (1..MaxPixels) \cup {50}

\* sizes around the places where round(x, 2) has to decide: 5242 and 5243
\* bytes lie on the two sides of 0.005 MB, 131072 bytes are 0.125 MB, and
\* so on
TieSizes == {5242, 5243, 131072, 393216, 655360, 917504, 1048576, 1572864, 10485760}

Sizes == (0..MaxBytes) \cup TieSizes

\* what a function called on its own finds outside itself
os_with(d, n, dataset, stat_ok, open_ok, read_ok) ==
    [cwd |-> d, listing |-> [e \in Dirs |-> <<n>>],
     atime |-> [e \in Dirs |-> [m \in AllNames |-> 0]], size |-> FileSize,
     ctime |-> FileCtime, dataset |-> dataset, stat_ok |-> stat_ok,
     open_ok |-> open_ok, read_ok |-> read_ok, finalized |-> TRUE]

InitFn ==
    /\ InitScan("/data", "/data", <<>>, FALSE, FALSE)
    /\ call = NoCall

FnRaster ==
    /\ \E gt \in GeoTransforms, w \in PixelCounts, h \in PixelCounts :
        LET ds == [geotransform |-> gt, xsize |-> w, ysize |-> h,
                   projection |-> "WGS 84", driver |-> "GeoTIFF"]
        IN  call' = [op |-> "raster_data_reader", in |-> ds,
                     out |-> raster_data_reader(DirEntry("/data", N_tif),
                                os_with("/data", N_tif, [f \in Files |-> ds],
                                        TRUE, TRUE, TRUE))]
    /\ UNCHANGED scan_vars

FnCreator ==
    /\ \E size \in Sizes, ct \in 0..MaxTime, at \in 0..MaxTime :
        LET st == [st_size |-> size, st_ctime |-> ct, st_atime |-> at]
            info == [extent |-> <<0, 0, 1, 1>>, format |-> "GeoJSON",
                     spatial_reference |-> to_string("epsg:4326"),
                     data_type |-> "vector"]
        IN  call' = [op |-> "metadata_creator", in |-> st,
                     out |-> metadata_creator(N_geojson, st, info)]
    /\ UNCHANGED scan_vars

FnParse ==
    /\ \E n \in AllNames, d \in Dirs, stat_ok, open_ok, read_ok \in BOOLEAN :
        call' = [op |-> "parse_metadata",
                 in |-> [name |-> n, dir |-> d, stat_ok |-> stat_ok,
                         open_ok |-> open_ok, read_ok |-> read_ok],
                 out |-> parse_metadata(DirEntry(d, n),
                            os_with(d, n, Content, stat_ok, open_ok, read_ok))]
    /\ UNCHANGED scan_vars

NextFn == FnRaster \/ FnCreator \/ FnParse

SpecFn == InitFn /\ [][NextFn]_vars

-----------------------------------------------------------------------------
(* The claims *)

VectorSuffixes == {S_gpkg, S_shp, S_geojson}
RasterSuffixes == {S_tif, S_img}

HasSuffix(name, suffixes) ==
    \E suffix \in suffixes :
        /\ Len(name) >= Len(suffix)
        /\ \A k \in 1..Len(suffix) : name[Len(name) - Len(suffix) + k] = suffix[k]

Recognized(name) == HasSuffix(name, VectorSuffixes \cup RasterSuffixes)

Abs(x) == IF x < 0 THEN -x ELSE x

\* a complete metadata.csv: the header, then the fields of every collected
\* record in the order of the header
CompleteRows(store) ==
    <<fields_names>> \o
    [i \in DOMAIN store |->
        <<store[i].name, store[i].data_type, store[i].format, store[i].volume_in_MB,
          store[i].spatial_reference, store[i].extent, store[i].creation_date,
          store[i].update_date>>]

IsPrefix(s, t) == Len(s) <= Len(t) /\ \A i \in DOMAIN s : s[i] = t[i]

LogNames == [i \in DOMAIN log |-> log[i].name]

\* C1: an entry whose name has none of the five suffixes yields no record and
\* no failure, whatever its state, a failing stat included.
C1_UnrecognizedSkipped ==
    \A i \in DOMAIN log :
        ~Recognized(log[i].name) => log[i].raised = NoExc /\ log[i].value = None

\* C2: for the geotransform (xmin, xres, rotation, ymax, rotation, yres) and
\* the size W x H, raster_data_reader returns the extent
\* (xmin, ymax + H * yres, xmin + W * xres, ymax).
C2_RasterExtent ==
    call.op = "raster_data_reader" =>
        LET gt == call.in.geotransform
            W == call.in.xsize
            H == call.in.ysize
        IN  call.out.value.extent
                = <<gt[1], gt[4] + H * gt[6], gt[1] + W * gt[2], gt[4]>>

\* C3, as claimed: a run that returned has written one complete metadata.csv,
\* and a run that raised has left metadata.csv as it was: no run leaves a
\* metadata.csv with only part of the records.
C3_AllOrNothing ==
    /\ pc = "returned" => csv = [exists |-> TRUE, rows |-> CompleteRows(metadata_store)]
    /\ pc = "raised" => csv = csv_at_start

\* C3, amended: a run that returned has written one complete metadata.csv; as
\* long as no write to metadata.csv has failed, a run in which an entry
\* failed, or which raised, has left metadata.csv as it was when the run
\* began; a run in which a write failed has left metadata.csv without its
\* old content, holding less than the complete rows.
C3_NothingBeforeWriterPhase ==
    /\ pc = "returned" => csv = [exists |-> TRUE, rows |-> CompleteRows(metadata_store)]
    /\ pc = "scanning" => csv = csv_at_start
    /\ (\E i \in DOMAIN log : log[i].raised # NoExc) => csv = csv_at_start
    /\ pc = "raised" /\ exc # "OSError: write" => csv = csv_at_start
    /\ pc = "raised" /\ exc = "OSError: write" =>
           /\ csv.exists
           /\ IsPrefix(csv.rows, CompleteRows(metadata_store))
           /\ Len(csv.rows) <= Len(metadata_store)

\* a run raised in the scan after it had collected a record, and the
\* metadata.csv that was there before is still there
C3_Witness ==
    /\ pc = "raised"
    /\ exc = "DriverError"
    /\ metadata_store # <<>>
    /\ csv_at_start = OldCsv
    /\ csv = OldCsv

\* C4: the second of two runs in succession that both returned leaves the
\* same metadata.csv as the first.
C4_Deterministic ==
    pc = "returned" /\ prev_csv.valid => csv = prev_csv.file

\* C5: the data_type of a record of parse_metadata is "vector" exactly when
\* the name ends with .gpkg, .shp or .geojson, "raster" exactly when it ends
\* with .tif or .img, and never anything else.
C5_DataType ==
    call.op = "parse_metadata" /\ call.out.value # None =>
        LET dt == call.out.value.data_type
        IN  /\ dt \in {"vector", "raster"}
            /\ dt = "vector" <=> HasSuffix(call.in.name, VectorSuffixes)
            /\ dt = "raster" <=> HasSuffix(call.in.name, RasterSuffixes)

\* parse_metadata made a raster record of the file named .img
C5_Witness ==
    /\ call.op = "parse_metadata"
    /\ call.in.name = N_dot
    /\ call.out.value # None
    /\ call.out.value.data_type = "raster"

\* C6: after a run that returned, metadata.csv holds the header of 8 columns
\* and then one row for every entry of the scanned directory with one of the
\* five suffixes, in the order of the enumeration, and no other row.
C6_OneRowPerRecognizedEntry ==
    pc = "returned" =>
        LET wanted == SelectSeq(listing[path], Recognized)
        IN  /\ csv.exists
            /\ Len(csv.rows) = 1 + Len(wanted)
            /\ csv.rows[1] = fields_names
            /\ \A i \in DOMAIN wanted :
                   /\ Len(csv.rows[i + 1]) = Len(fields_names)
                   /\ csv.rows[i + 1][1] = wanted[i]
                   /\ csv.rows[i + 1][2] =
                          IF HasSuffix(wanted[i], VectorSuffixes) THEN "vector"
                          ELSE "raster"

\* a directory with a .geojson, a .tif and a .txt gave 2 rows after the header
C6_Witness ==
    /\ pc = "returned"
    /\ Range(listing[path]) \ {N_csv} = {N_geojson, N_tif, N_txt}
    /\ Len(csv.rows) = 3

\* C7: an entry whose stat or whose read failed is the last one processed:
\* scan_directory has raised that failure, the entries after it are left
\* alone, metadata.csv is neither opened nor changed; and no entry is taken
\* twice or passed over: an entry with one of the five suffixes that did not
\* fail gave a record.
C7_FailFast ==
    /\ \A i \in DOMAIN log :
           log[i].raised # NoExc =>
               /\ i = Len(log)
               /\ pc = "raised"
               /\ exc = log[i].raised
               /\ csv = csv_at_start
               /\ csv_handle \notin open_handles
    /\ pc = "scanning" \/ (\E i \in DOMAIN log : log[i].raised # NoExc) =>
           LogNames \o scanner = listing[path]
    /\ \A i \in DOMAIN log :
           Recognized(log[i].name) /\ log[i].raised = NoExc => log[i].value # None

\* the second entry could not be opened; the third was never processed
C7_Witness ==
    /\ pc = "raised"
    /\ Len(log) = 2
    /\ log[2].raised \in {"DriverError", "AttributeError"}
    /\ log[1].value # None
    /\ Len(scanner) = 1

\* C8: volume_in_MB is the number with 2 decimals nearest to
\* st_size / 1048576, the even one of two that are equally near, and it is
\* not negative.
C8_Volume ==
    call.op = "metadata_creator" =>
        LET size == call.in.st_size
            hundredths == call.out.volume_in_MB
            twice_error == 2 * Abs(hundredths * KiB * KiB - 100 * size)
        IN  /\ hundredths >= 0
            /\ twice_error <= KiB * KiB
            /\ twice_error = KiB * KiB => hundredths % 2 = 0

\* 131072 bytes are 0.125 MB, which rounds to 0.12
C8_Witness ==
    /\ call.op = "metadata_creator"
    /\ call.in.st_size = 131072
    /\ call.out.volume_in_MB = 12

\* C9: a handle is open only inside the operation that acquired it: none
\* once scan_directory returned or raised, only the directory iterator
\* between two entries, only metadata.csv between two writes.
C9_HandlesReleased ==
    /\ pc \in {"idle", "returned", "raised"} => open_handles = {}
    /\ pc = "scanning" => open_handles \subseteq {scandir_handle}
    /\ pc = "writing" => open_handles \subseteq {csv_handle}

\* C10: the file a reader opened for a record is the entry that was
\* enumerated and stat'ed, so that the spatial fields of the record are those
\* of the file its name, volume and dates belong to.
C10_SameFile ==
    \A i \in DOMAIN log :
        log[i].value # None =>
            /\ log[i].opened = log[i].entry
            /\ log[i].value.spatial_reference =
                   IF HasSuffix(log[i].name, RasterSuffixes)
                   THEN Content[log[i].entry].projection
                   ELSE to_string(Content[log[i].entry].crs)

====
